---- MODULE Spec2Model ----
(***************************************************************************)
(* Model of slash/parallel/worker.py: the Worker of the parallel runner.   *)
(* A worker process runs Worker.start (the main thread) and, after a       *)
(* successful validation, a keep_alive thread.  Worker processes share no  *)
(* state: the master (server.py) and, through it, the other workers reach  *)
(* a worker only as the answers to its XML-RPC calls, which are inputs     *)
(* chosen freely at every call.                                            *)
(***************************************************************************)
EXTENDS Integers, Sequences, FiniteSets, TLC

(* ---- bounds of the model ---------------------------------------------- *)
\* get_test answers that may continue the loop
MaxGetTest == 2
\* largest integer the master may answer as a test index
MaxIndex == 2
\* report_warning calls during one call of start
MaxWarnings == 1

(* ---- values of server.py (imported at worker.py:7) -------------------- *)
\* An answer of the master is a tagged value: the tag is a control code, or
\* "index" for a test index carried in the index field.
WAITING_FOR_CLIENTS == "WAITING_FOR_CLIENTS"
PROTOCOL_ERROR == "PROTOCOL_ERROR"
FINISHED_ALL_TESTS == "FINISHED_ALL_TESTS"
SHOULD_TERMINATE == "SHOULD_TERMINATE"
Sentinels == {WAITING_FOR_CLIENTS, PROTOCOL_ERROR, FINISHED_ALL_TESTS, SHOULD_TERMINATE}

\* an RPC call that raises instead of returning (socket error, xmlrpc Fault)
TransportFailure == "TransportFailure"
Answer(tag) == [tag |-> tag, index |-> 0]
IndexAnswer(i) == [tag |-> "index", index |-> i]
NoAnswer == Answer("None")

(* ---- tests ------------------------------------------------------------ *)
\* a collected test, reduced to the fields of test.__slash__ that start reads
TestA == [file_path |-> "test_a.py", function_name |-> "test_x", variation |-> 0]
TestB == [file_path |-> "test_a.py", function_name |-> "test_x", variation |-> 1]
Tests == {TestA, TestB}

\* the collections a worker may have loaded
LocalCollections == {<<TestA, TestB>>, <<TestB, TestA>>, <<TestA>>}

\* worker.py:41: the list of (file_path, function_name, variation.id) tuples
Collection(tests) ==
    [i \in 1..Len(tests) |->
        <<tests[i].file_path, tests[i].function_name, tests[i].variation>>]

\* the master's authoritative collection, in the same tuple form
MasterCollection == << <<"test_a.py", "test_x", 0>>, <<"test_a.py", "test_x", 1>> >>

\* the master's answer to validate_collection
ValidateCollection(collection) ==
    IF collection = MasterCollection THEN Answer("True") ELSE Answer("False")

\* worker.py:72: collected_tests[test_index], a Python list subscript.
\* The position (1-based) of the element, 0 for IndexError.
ListIndex(tests, i) ==
    IF i >= 0 /\ i < Len(tests) THEN i + 1
    ELSE IF i < 0 /\ i >= 0 - Len(tests) THEN Len(tests) + i + 1
    ELSE 0

\* worker.py:75: context.session.results[test], the result object of a test
Result(test, status) ==
    [test_id |-> <<test.file_path, test.function_name, test.variation>>,
     status |-> status]

\* worker.py:77: result.serialize()
Serialize(result) == <<"serialized", result.test_id, result.status>>

\* what get_test may answer: a sentinel, a position of the master's list
\* (never negative), or a failure of the call
IndexValues == 0..MaxIndex
GetTestAnswers ==
    {Answer(s) : s \in Sentinels} \cup {IndexAnswer(i) : i \in IndexValues}
        \cup {Answer(TransportFailure)}
EndingAnswers ==
    {Answer(s) : s \in {PROTOCOL_ERROR, FINISHED_ALL_TESTS, SHOULD_TERMINATE,
                        TransportFailure}}
\* what finished_test may answer
FinishedTestAnswers == {Answer("ACK"), Answer(PROTOCOL_ERROR), Answer(TransportFailure)}
\* what connect and disconnect may answer
PlainAnswers == {Answer("None"), Answer(TransportFailure)}

(* ---- warnings ----------------------------------------------------------- *)
\* A warning handed to the hook, reduced to what pickle.dumps does with it:
\* it returns a string, or raises the exception named.  (An instance of a
\* class or function defined inside a function raises AttributeError,
\* "Can't pickle local object", on Python 3.)
Warnings ==
    {[message |-> "w", pickles |-> p] :
        p \in {"ok", "PicklingError", "TypeError", "AttributeError"}}

\* worker.py:32: pickle.dumps(warning): "ok" or the exception raised
PickleDumps(warning) == warning.pickles

\* worker.py:32-33: what report_warning is handed: the pickled warning
Pickled(warning) == <<"pickle", warning.message>>

\* worker.py:34: the exceptions the except clause of warning_added names
CaughtByHook(e) == e \in {"PicklingError", "TypeError"}

\* worker.py:30-35: warning_added(warning); ret is the answer of report_warning
\* should the call be made.  reported: the call was made; logged:
\* _logger.error was called; raised: the exception that left the hook.
WarningAdded(warning, ret) ==
    LET e == PickleDumps(warning) IN
    IF e = "ok"
    THEN [payload |-> e, reported |-> TRUE, logged |-> FALSE, on |-> 0,
          raised |-> IF ret.tag = TransportFailure
                     THEN (IF CaughtByHook(TransportFailure) THEN "None"
                           ELSE TransportFailure)
                     ELSE "None"]
    ELSE IF CaughtByHook(e)
    THEN [payload |-> e, reported |-> FALSE, logged |-> TRUE, on |-> 0,
          raised |-> "None"]
    ELSE [payload |-> e, reported |-> FALSE, logged |-> FALSE, on |-> 0,
          raised |-> e]

\* no warning was raised yet by the test that is executing
NoHook ==
    [payload |-> "None", reported |-> FALSE, logged |-> FALSE, on |-> 0,
     raised |-> "None"]

VARIABLES
    pc,             \* position of the main thread in Worker.start
    hb,             \* position of the keep_alive thread
    collected_tests,\* self.collected_tests
    stop_event,     \* threading.Event of start: "None" before line 49, "unset", "set"
    should_stop,    \* local of start
    test_index,     \* local of start: last answer of get_test
    current_parallel_test_index, \* context.session.current_parallel_test_index
    results,        \* context.session.results: test -> status
    complete,       \* context.session.mark_complete() was called
    flushed,        \* scope_manager.flush_remaining_scopes() was called
    sleeps,         \* number of time.sleep(0.05) performed
    exc,            \* exception in flight in start
    rpcLog,         \* calls made on self.client, in order, with their answers
    kaLate,         \* a keep_alive call was issued after the disconnect call
    budget,         \* get_test answers that may still continue the loop
    warned,         \* report_warning calls made so far
    hook,           \* what warning_added did with the last of them
    branch,         \* branch of the loop body taken for the last get_test answer
    client,         \* self.client: the ServerProxy of start (0 before line 42)
    proxy,          \* the local proxy of keep_alive (0 before line 25)
    handles,        \* the ServerProxy objects created so far, by who created each
    id_gen,         \* TestSuite.id_gen: the next value of itertools.count()
    files,          \* TestSuite.files: files of classes of test ids
    all_tests       \* TestSuite._all_tests: the planned tests in order of creation

vars == <<pc, hb, collected_tests, stop_event, should_stop, test_index,
          current_parallel_test_index, results, complete, flushed, sleeps,
          exc, rpcLog, kaLate, budget, warned, hook, branch,
          client, proxy, handles, id_gen, files, all_tests>>

workerVars == <<pc, hb, collected_tests, stop_event, should_stop, test_index,
                current_parallel_test_index, results, complete, flushed,
                sleeps, exc, rpcLog, kaLate, budget, warned, hook, branch,
                client, proxy, handles>>
suiteVars == <<id_gen, files, all_tests>>
hookVars == <<warned, hook>>
handleVars == <<client, proxy, handles>>

\* xmlrpc_client.ServerProxy(...): a new object at every call
NewHandle == Len(handles) + 1

\* one call on self.client, as the master saw it
Call(name, sent, ret) == [call |-> name, sent |-> sent, ret |-> ret, on |-> client]
Calls(name) == SelectSeq(rpcLog, LAMBDA e : e.call = name)
NumCalls(name) == Len(Calls(name))

(* ---- Init: the worker as Worker.__init__ leaves it ---------------------- *)
WorkerInit ==
    /\ pc = "connect"
    /\ collected_tests \in LocalCollections
    /\ budget = MaxGetTest
    /\ hb = "unstarted"
    /\ stop_event = "None"
    /\ should_stop = FALSE
    /\ test_index = NoAnswer
    /\ current_parallel_test_index = NoAnswer
    /\ results = [t \in Tests |-> "None"]
    /\ complete = FALSE
    /\ flushed = FALSE
    /\ sleeps = 0
    /\ exc = "None"
    /\ rpcLog = <<>>
    /\ kaLate = FALSE
    /\ warned = 0
    /\ hook = NoHook
    /\ branch = "None"
    /\ client = 0
    /\ proxy = 0
    /\ handles = <<>>

\* tests/utils/suite.py:27-33: TestSuite.__init__
SuiteInit ==
    /\ id_gen = 0
    /\ files = <<>>
    /\ all_tests = <<>>

Init == WorkerInit /\ SuiteInit

(* ---- Worker.start, worker.py:37-90 ------------------------------------- *)
\* where an RPC that raised outside the try statement leaves start
Raise(e) == /\ exc' = e
            /\ pc' = "raised"

\* worker.py:40-43: register the hook, open self.client and call
\* self.client.connect(self.client_id) on it
Connect ==
    /\ pc = "connect"
    /\ client' = NewHandle
    /\ handles' = Append(handles, "start")
    /\ UNCHANGED proxy
    /\ \E ret \in PlainAnswers :
        /\ rpcLog' = Append(rpcLog, [Call("connect", <<>>, ret) EXCEPT !.on = client'])
        /\ IF ret.tag = TransportFailure
           THEN Raise(TransportFailure)
           ELSE pc' = "validate" /\ UNCHANGED exc
    /\ UNCHANGED <<hookVars, branch, suiteVars>>
    /\ UNCHANGED <<hb, collected_tests, stop_event, should_stop, test_index,
                   current_parallel_test_index, results, complete, flushed,
                   sleeps, kaLate, budget>>

\* worker.py:44: the branch on the answer of validate_collection
AfterValidateMismatchIgnored(ret) == "start_thread"
AfterValidate(ret) == IF ret.tag = "True" THEN "start_thread" ELSE "mismatch"

\* worker.py:41,44: self.client.validate_collection(self.client_id, collection)
Validate ==
    /\ pc = "validate"
    /\ \E ret \in {ValidateCollection(Collection(collected_tests)),
                   Answer(TransportFailure)} :
        /\ rpcLog' = Append(rpcLog, Call("validate_collection", Collection(collected_tests), ret))
        /\ IF ret.tag = TransportFailure
           THEN Raise(TransportFailure)
           ELSE pc' = AfterValidate(ret) /\ UNCHANGED exc
    /\ UNCHANGED <<hookVars, branch, handleVars, suiteVars>>
    /\ UNCHANGED <<hb, collected_tests, stop_event, should_stop, test_index,
                   current_parallel_test_index, results, complete, flushed,
                   sleeps, kaLate, budget>>

\* worker.py:45-47: log the mismatch, disconnect, return
MismatchDisconnect ==
    /\ pc = "mismatch"
    /\ \E ret \in PlainAnswers :
        /\ rpcLog' = Append(rpcLog, Call("disconnect", <<>>, ret))
        /\ IF ret.tag = TransportFailure
           THEN Raise(TransportFailure)
           ELSE pc' = "returned" /\ UNCHANGED exc
    /\ UNCHANGED <<hookVars, branch, handleVars, suiteVars>>
    /\ UNCHANGED <<hb, collected_tests, stop_event, should_stop, test_index,
                   current_parallel_test_index, results, complete, flushed,
                   sleeps, kaLate, budget>>

\* worker.py:49-55: create the event, start the thread, enter the session context
StartThread ==
    /\ pc = "start_thread"
    /\ stop_event' = "unset"
    /\ hb' = "open"
    /\ should_stop' = FALSE
    /\ pc' = "loop"
    /\ UNCHANGED <<hookVars, branch, handleVars, suiteVars>>
    /\ UNCHANGED <<collected_tests, test_index, current_parallel_test_index,
                   results, complete, flushed, sleeps, exc, rpcLog, kaLate, budget>>

\* worker.py:56-90: an exception raised in the try suite that is no
\* interruption: no except clause matches and the else clause is skipped, so
\* the finally clause runs with the exception in flight
RaiseInLoopHandled(e) == /\ exc' = "None"
                         /\ pc' = "else"
RaiseInLoop(e) == /\ exc' = e
                  /\ pc' = "flush"

\* worker.py:59-71: the if/elif chain on test_index, named by what it logs
Branch(ans) ==
    IF ans.tag = WAITING_FOR_CLIENTS THEN "waiting"
    ELSE IF ans.tag = PROTOCOL_ERROR THEN "protocol_error"
    ELSE IF ans.tag = FINISHED_ALL_TESTS THEN "finished_all_tests"
    ELSE IF ans.tag = SHOULD_TERMINATE THEN "should_terminate"
    ELSE "test"

\* worker.py:59-71: where the branch taken leaves start
AfterGetTestFinishedRetried(ans) ==
    IF ans.tag = WAITING_FOR_CLIENTS THEN "sleep"
    ELSE IF ans.tag = PROTOCOL_ERROR THEN "else"
    ELSE IF ans.tag = FINISHED_ALL_TESTS THEN "sleep"
    ELSE IF ans.tag = SHOULD_TERMINATE THEN "sleep"
    ELSE "dispatch"
AfterGetTestTerminateDispatched(ans) ==
    IF ans.tag = WAITING_FOR_CLIENTS THEN "sleep"
    ELSE IF ans.tag = PROTOCOL_ERROR THEN "else"
    ELSE IF ans.tag = FINISHED_ALL_TESTS THEN "else"
    ELSE "dispatch"
AfterGetTest(ans) ==
    IF ans.tag = WAITING_FOR_CLIENTS THEN "sleep"
    ELSE IF ans.tag = PROTOCOL_ERROR THEN "else"      \* break: the try suite ends
    ELSE IF ans.tag = FINISHED_ALL_TESTS THEN "else"  \* break
    ELSE IF ans.tag = SHOULD_TERMINATE THEN "else"    \* break
    ELSE "dispatch"

\* worker.py:57-58: the loop test and self.client.get_test(self.client_id)
GetTest ==
    /\ pc = "loop"
    /\ ~should_stop
    /\ \E ans \in (IF budget > 0 THEN GetTestAnswers ELSE EndingAnswers) :
        /\ rpcLog' = Append(rpcLog, Call("get_test", <<>>, ans))
        /\ budget' = IF ans \in EndingAnswers THEN budget ELSE budget - 1
        /\ IF ans.tag = TransportFailure
           THEN /\ RaiseInLoop(TransportFailure)
                /\ UNCHANGED <<test_index, branch>>
           ELSE /\ test_index' = ans
                /\ branch' = Branch(ans)
                /\ pc' = AfterGetTest(ans)
                /\ UNCHANGED exc
    /\ UNCHANGED <<hookVars, handleVars, suiteVars>>
    /\ UNCHANGED <<hb, collected_tests, stop_event, should_stop,
                   current_parallel_test_index, results, complete, flushed,
                   sleeps, kaLate>>

\* worker.py:57: the loop test fails once should_stop is set; the try suite ends
LoopExit ==
    /\ pc = "loop"
    /\ should_stop
    /\ pc' = "else"
    /\ UNCHANGED <<hookVars, branch, handleVars, suiteVars>>
    /\ UNCHANGED <<hb, collected_tests, stop_event, should_stop, test_index,
                   current_parallel_test_index, results, complete, flushed,
                   sleeps, exc, rpcLog, kaLate, budget>>

\* worker.py:60-61: time.sleep(0.05), then the loop again
SleepTwice ==
    /\ pc = "sleep"
    /\ sleeps' = sleeps + 2
    /\ pc' = "loop"
    /\ UNCHANGED <<hookVars, branch, handleVars, suiteVars>>
    /\ UNCHANGED <<hb, collected_tests, stop_event, should_stop, test_index,
                   current_parallel_test_index, results, complete, flushed,
                   exc, rpcLog, kaLate, budget>>
Sleep ==
    /\ pc = "sleep"
    /\ sleeps' = sleeps + 1
    /\ pc' = "loop"
    /\ UNCHANGED <<hookVars, branch, handleVars, suiteVars>>
    /\ UNCHANGED <<hb, collected_tests, stop_event, should_stop, test_index,
                   current_parallel_test_index, results, complete, flushed,
                   exc, rpcLog, kaLate, budget>>

\* the local variable test of start: collected_tests[test_index]
CurrentTest ==
    collected_tests[ListIndex(collected_tests, test_index.index)]

\* worker.py:72-73: resolve the test and record its index in the session
\* worker.py:73: the value written to context.session.current_parallel_test_index
DispatchedIndexNotWritten == current_parallel_test_index
DispatchedIndex == test_index

Dispatch ==
    /\ pc = "dispatch"
    /\ IF ListIndex(collected_tests, test_index.index) = 0
       THEN /\ exc' = "IndexError"
            /\ pc' = "flush"
            /\ UNCHANGED current_parallel_test_index
       ELSE /\ current_parallel_test_index' = DispatchedIndex
            /\ pc' = "run"
            /\ UNCHANGED exc
    /\ UNCHANGED <<hookVars, branch, handleVars, suiteVars>>
    /\ UNCHANGED <<hb, collected_tests, stop_event, should_stop, test_index,
                   results, complete, flushed, sleeps, rpcLog, kaLate, budget>>

\* where start goes once run_tests has returned
AfterRunTestsNextRequested == "loop"
AfterRunTests == "finished_test"

\* worker.py:74: run_tests([test]); the test ends with a result, or an
\* interruption is raised while it executes
RunTests ==
    /\ pc = "run"
    /\ \/ \E status \in {"success", "failure"} :
            /\ results' = [results EXCEPT ![CurrentTest] = status]
            /\ pc' = AfterRunTests
            /\ UNCHANGED exc
       \/ /\ exc' = "Interruption"
          /\ pc' = "except"
          /\ UNCHANGED results
    /\ hook' = NoHook
    /\ UNCHANGED warned
    /\ UNCHANGED <<branch, handleVars, suiteVars>>
    /\ UNCHANGED <<hb, collected_tests, stop_event, should_stop, test_index,
                   current_parallel_test_index, complete, flushed, sleeps,
                   rpcLog, kaLate, budget>>

\* worker.py:40,30-35: a warning is raised while the test executes and the
\* registered hook runs in the thread of the test; a warning that pickles is
\* reported by a call of report_warning on self.client.  An exception that
\* leaves the hook is either absorbed by the code that triggered the hook,
\* and the test goes on, or leaves run_tests.
Warning ==
    /\ pc = "run"
    /\ UNCHANGED <<branch, handleVars, suiteVars>>
    /\ \E warning \in Warnings, ret \in PlainAnswers, leaves \in BOOLEAN :
        /\ PickleDumps(warning) = "ok" => warned < MaxWarnings
        /\ warned' = IF PickleDumps(warning) = "ok" THEN warned + 1 ELSE warned
        /\ hook' = [WarningAdded(warning, ret) EXCEPT
                        !.on = IF @ = 0 /\ WarningAdded(warning, ret).reported
                               THEN client ELSE 0]
        /\ rpcLog' = IF hook'.reported
                     THEN Append(rpcLog, Call("report_warning", Pickled(warning), ret))
                     ELSE rpcLog
        /\ IF hook'.raised # "None" /\ leaves
           THEN RaiseInLoop(hook'.raised)
           ELSE UNCHANGED <<pc, exc>>
    /\ UNCHANGED <<hb, collected_tests, stop_event, should_stop, test_index,
                   current_parallel_test_index, results, complete, flushed,
                   sleeps, kaLate, budget>>

\* worker.py:75,77: the blob sent for the test that was just run
SubmittedFirstTest ==
    Serialize(Result(collected_tests[1], results[collected_tests[1]]))
Submitted == Serialize(Result(CurrentTest, results[CurrentTest]))

\* worker.py:78-80: should_stop after the acknowledgement of finished_test
StopAfterFinishedNever(ret) == should_stop
StopAfterFinished(ret) == IF ret.tag = PROTOCOL_ERROR THEN TRUE ELSE should_stop

\* worker.py:75-80: self.client.finished_test(self.client_id, result.serialize())
FinishedTest ==
    /\ pc = "finished_test"
    /\ \E ret \in FinishedTestAnswers :
        /\ rpcLog' = Append(rpcLog, Call("finished_test", Submitted, ret))
        /\ IF ret.tag = TransportFailure
           THEN /\ RaiseInLoop(TransportFailure)
                /\ UNCHANGED should_stop
           ELSE /\ should_stop' = StopAfterFinished(ret)
                /\ pc' = "loop"
                /\ UNCHANGED exc
    /\ UNCHANGED <<hookVars, branch, handleVars, suiteVars>>
    /\ UNCHANGED <<hb, collected_tests, stop_event, test_index,
                   current_parallel_test_index, results, complete, flushed,
                   sleeps, kaLate, budget>>

\* worker.py:81-83: the except clause logs and raises again
ExceptSwallowed ==
    /\ pc = "except"
    /\ exc' = "None"
    /\ pc' = "else"
    /\ UNCHANGED <<hookVars, branch, handleVars, suiteVars>>
    /\ UNCHANGED <<hb, collected_tests, stop_event, should_stop, test_index,
                   current_parallel_test_index, results, complete, flushed,
                   sleeps, rpcLog, kaLate, budget>>
Except ==
    /\ pc = "except"
    /\ exc = "Interruption"
    /\ pc' = "flush"
    /\ UNCHANGED <<hookVars, branch, handleVars, suiteVars>>
    /\ UNCHANGED <<hb, collected_tests, stop_event, should_stop, test_index,
                   current_parallel_test_index, results, complete, flushed,
                   sleeps, exc, rpcLog, kaLate, budget>>

\* worker.py:84-85: the else clause: context.session.mark_complete()
MarkComplete ==
    /\ pc = "else"
    /\ complete' = TRUE
    /\ pc' = "disconnect"
    /\ UNCHANGED <<hookVars, branch, handleVars, suiteVars>>
    /\ UNCHANGED <<hb, collected_tests, stop_event, should_stop, test_index,
                   current_parallel_test_index, results, flushed, sleeps, exc,
                   rpcLog, kaLate, budget>>

\* worker.py:86: self.client.disconnect(self.client_id)
Disconnect ==
    /\ pc = "disconnect"
    /\ \E ret \in PlainAnswers :
        /\ rpcLog' = Append(rpcLog, Call("disconnect", <<>>, ret))
        /\ exc' = IF ret.tag = TransportFailure THEN TransportFailure ELSE exc
    /\ pc' = "flush"
    /\ UNCHANGED <<hookVars, branch, handleVars, suiteVars>>
    /\ UNCHANGED <<hb, collected_tests, stop_event, should_stop, test_index,
                   current_parallel_test_index, results, complete, flushed,
                   sleeps, kaLate, budget>>

\* worker.py:88: context.session.scope_manager.flush_remaining_scopes()
Flush ==
    /\ pc = "flush"
    /\ flushed' = TRUE
    /\ pc' = "set_event"
    /\ UNCHANGED <<hookVars, branch, handleVars, suiteVars>>
    /\ UNCHANGED <<hb, collected_tests, stop_event, should_stop, test_index,
                   current_parallel_test_index, results, complete, sleeps, exc,
                   rpcLog, kaLate, budget>>

\* worker.py:89: stop_event.set()
StopEventClear == "unset"
StopEventSet == "set"

SetEvent ==
    /\ pc = "set_event"
    /\ stop_event' = StopEventSet
    /\ pc' = "join"
    /\ UNCHANGED <<hookVars, branch, handleVars, suiteVars>>
    /\ UNCHANGED <<hb, collected_tests, should_stop, test_index,
                   current_parallel_test_index, results, complete, flushed,
                   sleeps, exc, rpcLog, kaLate, budget>>

\* Thread.join returns once the thread has ended, normally or by an exception
JoinReturnsAtOnce == TRUE
JoinReturns == hb \in {"exited", "failed"}

\* worker.py:90: tr.join(); then start returns, or the exception in flight leaves it
Join ==
    /\ pc = "join"
    /\ JoinReturns
    /\ pc' = IF exc = "None" THEN "returned" ELSE "raised"
    /\ UNCHANGED <<hookVars, branch, handleVars, suiteVars>>
    /\ UNCHANGED <<hb, collected_tests, stop_event, should_stop, test_index,
                   current_parallel_test_index, results, complete, flushed,
                   sleeps, exc, rpcLog, kaLate, budget>>

(* ---- Worker.keep_alive, worker.py:24-28 -------------------------------- *)
\* worker.py:25: the handle keep_alive calls on
KeepAliveProxyShared == client
KeepAliveProxy == NewHandle

\* worker.py:25: proxy = xmlrpc_client.ServerProxy(self.server_addr)
KeepAliveOpen ==
    /\ hb = "open"
    /\ proxy' = KeepAliveProxy
    /\ handles' = IF proxy' = NewHandle THEN Append(handles, "keep_alive") ELSE handles
    /\ hb' = "check"
    /\ UNCHANGED client
    /\ UNCHANGED <<hookVars, branch, suiteVars>>
    /\ UNCHANGED <<pc, collected_tests, stop_event, should_stop, test_index,
                   current_parallel_test_index, results, complete, flushed,
                   sleeps, exc, rpcLog, kaLate, budget>>

\* worker.py:26: stop_event.is_set()
StopEventIsSetNever == FALSE
StopEventIsSet == stop_event = "set"

\* worker.py:26: the loop test; a keep_alive call begins when the event is unset
KeepAliveCheck ==
    /\ hb = "check"
    /\ IF StopEventIsSet
       THEN hb' = "exited" /\ UNCHANGED kaLate
       ELSE /\ hb' = "call"
            /\ kaLate' = (kaLate \/ NumCalls("disconnect") > 0)
    /\ UNCHANGED <<hookVars, branch, handleVars, suiteVars>>
    /\ UNCHANGED <<pc, collected_tests, stop_event, should_stop, test_index,
                   current_parallel_test_index, results, complete, flushed,
                   sleeps, exc, rpcLog, budget>>

\* worker.py:27: proxy.keep_alive(self.client_id) returns, or raises and
\* ends the thread
KeepAliveCall ==
    /\ hb = "call"
    /\ \E ret \in PlainAnswers :
        hb' = IF ret.tag = TransportFailure THEN "failed" ELSE "wait"
    /\ UNCHANGED <<hookVars, branch, handleVars, suiteVars>>
    /\ UNCHANGED <<pc, collected_tests, stop_event, should_stop, test_index,
                   current_parallel_test_index, results, complete, flushed,
                   sleeps, exc, rpcLog, kaLate, budget>>

\* worker.py:28: stop_event.wait(1) returns, when the event is set or after 1 s
KeepAliveWait ==
    /\ hb = "wait"
    /\ hb' = "check"
    /\ UNCHANGED <<hookVars, branch, handleVars, suiteVars>>
    /\ UNCHANGED <<pc, collected_tests, stop_event, should_stop, test_index,
                   current_parallel_test_index, results, complete, flushed,
                   sleeps, exc, rpcLog, kaLate, budget>>

Next ==
        \/ Connect
        \/ Validate
        \/ MismatchDisconnect
        \/ StartThread
        \/ GetTest
        \/ LoopExit
        \/ Sleep
        \/ Dispatch
        \/ RunTests
        \/ Warning
        \/ FinishedTest
        \/ Except
        \/ MarkComplete
        \/ Disconnect
        \/ Flush
        \/ SetEvent
        \/ Join
        \/ KeepAliveOpen
        \/ KeepAliveCheck
        \/ KeepAliveCall
        \/ KeepAliveWait

Spec == Init /\ [][Next]_vars

\* The heartbeat is a thread of its own and the scheduler runs it; a
\* keep_alive call in progress returns or raises; join returns once the
\* thread has ended.
FairSpec ==
    /\ Spec
    /\ WF_vars(KeepAliveOpen \/ KeepAliveCheck \/ KeepAliveCall \/ KeepAliveWait)
    /\ WF_vars(Join)

(* ---- tests/utils/suite.py: TestSuite ----------------------------------- *)
MaxTests == 4

NUM_CLASSES_PER_FILE == 3
NUM_TESTS_PER_CLASS == 3
SUCCESS == "success"
FAILURE == "failure"
SKIP == "skip"

Last(seq) == seq[Len(seq)]

\* suite.py:162-171: PlannedTest(id); result is the class attribute _SUCCESS
PlannedTest(id) == [id |-> id, result |-> SUCCESS, selected |-> TRUE]
\* suite.py:132-135: Class(id)
Class(id) == [id |-> id, tests |-> <<>>]
\* suite.py:150-153: File(id)
File(id) == [id |-> id, classes |-> <<>>]

\* suite.py:137-138
can_add_test(cls) == Len(cls.tests) < NUM_TESTS_PER_CLASS
\* suite.py:155-156
can_add_class(file) == Len(file.classes) < NUM_CLASSES_PER_FILE

\* suite.py:52-55: the files and the id generator after the call; the file
\* returned is the last one
get_file_for_adding_class(fs, gen) ==
    IF fs = <<>> \/ ~can_add_class(Last(fs))
    THEN [files |-> Append(fs, File(gen)), id_gen |-> gen + 1]
    ELSE [files |-> fs, id_gen |-> gen]

\* suite.py:46: the test that sends add_test to the last class
ReturnsLastClass(fs) == fs # <<>> /\ ~can_add_test(Last(Last(fs).classes))

\* suite.py:45-50: the files and the id generator after the call; the class
\* returned is the last class of the last file
get_class_for_adding_test(fs, gen) ==
    IF ReturnsLastClass(fs)
    THEN [files |-> fs, id_gen |-> gen]
    ELSE LET new_class == Class(gen)
             r == get_file_for_adding_class(fs, gen + 1)
             n == Len(r.files)
         IN [files |-> [r.files EXCEPT ![n].classes = Append(@, new_class)],
             id_gen |-> r.id_gen]

\* suite.py:39-43
add_test ==
    /\ Len(all_tests) < MaxTests
    /\ LET test == PlannedTest(id_gen)
           r == get_class_for_adding_test(files, id_gen + 1)
           n == Len(r.files)
           k == Len(r.files[n].classes)
       IN /\ files' = [r.files EXCEPT ![n].classes[k].tests = Append(@, test.id)]
          /\ all_tests' = Append(all_tests, test)
          /\ id_gen' = r.id_gen
    /\ UNCHANGED workerVars

\* suite.py:185-186: PlannedTest.fail, on suite[i]
fail ==
    /\ \E i \in 1..Len(all_tests) :
          all_tests' = [all_tests EXCEPT ![i].result = FAILURE]
    /\ UNCHANGED <<id_gen, files>>
    /\ UNCHANGED workerVars

\* suite.py:182-183: PlannedTest.expect_deselect, on suite[i]
expect_deselect ==
    /\ \E i \in 1..Len(all_tests) :
          all_tests' = [all_tests EXCEPT ![i].selected = FALSE]
    /\ UNCHANGED <<id_gen, files>>
    /\ UNCHANGED workerVars

\* suite.py:188-190: PlannedTest.fix: a skip stays a skip
PlannedTest_fix(test) ==
    IF test.result # SKIP THEN [test EXCEPT !.result = SUCCESS] ELSE test

\* suite.py:188-190: PlannedTest.fix, on suite[i]
fix ==
    /\ \E i \in 1..Len(all_tests) :
          all_tests' = [all_tests EXCEPT ![i] = PlannedTest_fix(@)]
    /\ UNCHANGED <<id_gen, files>>
    /\ UNCHANGED workerVars

\* suite.py:80-82: fix_all: fix() on every test of _all_tests
fix_all ==
    /\ all_tests' = [i \in 1..Len(all_tests) |-> PlannedTest_fix(all_tests[i])]
    /\ UNCHANGED <<id_gen, files>>
    /\ UNCHANGED workerVars

SuiteNext ==
        \/ add_test
        \/ fail
        \/ expect_deselect
        \/ fix
        \/ fix_all

SuiteSpec == Init /\ [][SuiteNext]_vars

(* ---- vocabulary of the properties -------------------------------------- *)
Positions(name) == {i \in 1..Len(rpcLog) : rpcLog[i].call = name}
Answered(name, tags) == {i \in Positions(name) : rpcLog[i].ret.tag \in tags}
LoopCalls == Positions("get_test") \cup Positions("finished_test")
\* the position of the last call start itself made (the calls of the warning
\* hook left out), and of the first it made after position i; 0 if none
LastOfStart ==
    LET RECURSIVE Back(_)
        Back(i) == IF i = 0 \/ rpcLog[i].call # "report_warning"
                   THEN i ELSE Back(i - 1)
    IN Back(Len(rpcLog))
NextOfStart(i) ==
    LET RECURSIVE Forth(_)
        Forth(j) == IF j > Len(rpcLog) THEN 0
                    ELSE IF rpcLog[j].call # "report_warning" THEN j
                    ELSE Forth(j + 1)
    IN Forth(i + 1)
Exited == pc \in {"returned", "raised"}
Teardown == {"flush", "set_event", "join"}
InLoop == {"loop", "sleep", "dispatch", "run", "finished_test", "except"}
HeartbeatEnded == hb \in {"exited", "failed"}
TestId(test) == <<test.file_path, test.function_name, test.variation>>
LocalTest(i) == collected_tests[ListIndex(collected_tests, i)]

\* C1: on a run in which get_test or finished_test answered PROTOCOL_ERROR,
\* start never calls disconnect.
C1_NoDisconnectAfterProtocolError ==
    (Answered("get_test", {PROTOCOL_ERROR})
        \cup Answered("finished_test", {PROTOCOL_ERROR}) # {})
        => Positions("disconnect") = {}

\* C2: once get_test has answered PROTOCOL_ERROR the session is not marked
\* complete and no get_test or finished_test call follows.
C2_ProtocolErrorLeavesLoopIncomplete ==
    \A i \in Answered("get_test", {PROTOCOL_ERROR}) :
        /\ ~complete
        /\ \A j \in LoopCalls : j <= i

\* C3 as stated: if validate_collection answered false, there is no get_test
\* call, no test is run, the session is never marked complete, and start
\* leaves by returning, after exactly one disconnect call.
C3_MismatchAlwaysReturns ==
    Answered("validate_collection", {"False"}) # {} =>
        /\ Positions("get_test") = {}
        /\ \A t \in Tests : results[t] = "None"
        /\ ~complete
        /\ Cardinality(Positions("disconnect")) = (IF Exited THEN 1 ELSE 0)
        /\ pc \in {"mismatch", "returned"}

\* C3, amended: if validate_collection answered false, there is no get_test
\* call, no test is dispatched or run, the heartbeat is never started, the session is
\* never marked complete, and start exits after exactly one disconnect call:
\* it returns, unless that disconnect call itself raised.
C3_ValidationGate ==
    Answered("validate_collection", {"False"}) # {} =>
        /\ Positions("get_test") = {}
        /\ pc \in {"mismatch", "returned", "raised"}
        /\ \A t \in Tests : results[t] = "None"
        /\ hb = "unstarted"
        /\ ~complete
        /\ Cardinality(Positions("disconnect")) = (IF Exited THEN 1 ELSE 0)
        /\ pc = "raised" => rpcLog[Len(rpcLog)].ret.tag = TransportFailure

C3_Witness ==
    /\ Answered("validate_collection", {"False"}) # {}
    /\ pc = "returned"
    /\ Cardinality(Positions("disconnect")) = 1

\* C4: between a get_test call answered with a test index and the next
\* get_test call there is a finished_test call carrying the result of the
\* test at that index; and while that test is dispatched, run or submitted,
\* the last call start has made is still that get_test: what follows it in
\* the log are calls of the warning hook only.
C4_AtMostOneInFlight ==
    /\ LET gets == Positions("get_test")
           sent == Positions("finished_test")
       IN \A i \in gets :
            rpcLog[i].ret.tag = "index" =>
                \A j \in gets :
                    i < j =>
                        \E k \in sent :
                            /\ i < k /\ k < j
                            /\ rpcLog[k].sent[2] =
                                  TestId(LocalTest(rpcLog[i].ret.index))
    /\ pc \in {"dispatch", "run", "finished_test"} =>
          /\ LastOfStart # 0
          /\ rpcLog[LastOfStart].call = "get_test"
          /\ rpcLog[LastOfStart].ret = test_index

C4_Witness ==
    \E i, j \in Positions("get_test"), k \in Positions("finished_test"),
       w \in Positions("report_warning") :
        /\ i < w /\ w < k /\ k < j
        /\ rpcLog[i].ret.tag = "index" /\ rpcLog[j].ret.tag = "index"

\* C5: once the thread was started and the loop entered, start has not
\* exited, by return or by an exception, before the remaining scopes were
\* flushed, the event set and the keep_alive thread ended: no keep_alive
\* call is in progress, and none can begin, after start has exited.
C5_TeardownUnconditional ==
    (hb # "unstarted" /\ Exited) =>
        /\ flushed
        /\ stop_event = "set"
        /\ HeartbeatEnded
        /\ ~ENABLED KeepAliveCheck
        /\ ~ENABLED KeepAliveCall

C5_Witness ==
    /\ pc = "raised"
    /\ exc = "Interruption"
    /\ flushed
    /\ stop_event = "set"
    /\ hb = "exited"

\* C6: an interruption raised while a test executes stays in flight until it
\* leaves start: start does not return, the session is not marked complete,
\* disconnect is not called, and start exits only after teardown.
C6_InterruptionPropagates ==
    /\ [](exc = "Interruption" =>
            /\ pc \in {"except"} \cup Teardown \cup {"raised"}
            /\ ~complete
            /\ Positions("disconnect") = {}
            /\ pc = "raised" => (flushed /\ stop_event = "set" /\ HeartbeatEnded))
    /\ [][exc = "Interruption" => exc' = "Interruption"]_vars

C6_Witness ==
    /\ exc = "Interruption"
    /\ pc = "raised"
    /\ current_parallel_test_index.tag = "index"

\* C7: once finished_test has answered PROTOCOL_ERROR, no get_test or
\* finished_test call follows and no test is dispatched or run; the call
\* that was answered carried the result of the test just run.
C7_StopAfterFinishedTestProtocolError ==
    \A i \in Answered("finished_test", {PROTOCOL_ERROR}) :
        /\ \A j \in LoopCalls : j <= i
        /\ pc \notin {"sleep", "dispatch", "run", "finished_test", "except"}
        /\ pc = "loop" => should_stop
        /\ results[CurrentTest] \in {"success", "failure"}
        /\ rpcLog[i].sent = Serialize(Result(CurrentTest, results[CurrentTest]))

C7_Witness ==
    /\ Answered("finished_test", {PROTOCOL_ERROR}) # {}
    /\ Exited

\* C8: once get_test has answered FINISHED_ALL_TESTS or SHOULD_TERMINATE, no
\* get_test or finished_test call follows, no test is dispatched or run, the
\* session is marked complete and disconnect is called exactly once.
C8_NormalCompletion ==
    \A i \in Answered("get_test", {FINISHED_ALL_TESTS, SHOULD_TERMINATE}) :
        /\ \A j \in LoopCalls : j <= i
        /\ pc \notin InLoop
        /\ pc = "else" => (~complete /\ Positions("disconnect") = {})
        /\ pc = "disconnect" => (complete /\ Positions("disconnect") = {})
        /\ pc \in Teardown \cup {"returned", "raised"} =>
              (complete /\ Cardinality(Positions("disconnect")) = 1)

C8_Witness ==
    /\ Answered("get_test", {SHOULD_TERMINATE}) # {}
    /\ pc = "returned"
    /\ complete
    /\ Cardinality(Positions("disconnect")) = 1

\* the get_test calls answered with a test index, and the finished_test
\* calls, in the order they were made
Received == SelectSeq(rpcLog, LAMBDA e : e.call = "get_test" /\ e.ret.tag = "index")
Sent == SelectSeq(rpcLog, LAMBDA e : e.call = "finished_test")

\* a run in which get_test answered test indices and then
\* FINISHED_ALL_TESTS, and every finished_test was acknowledged
C9_Scenario ==
    /\ Exited
    /\ Positions("get_test") # {}
    /\ \A i \in Positions("get_test") :
          rpcLog[i].ret.tag = (IF \E j \in Positions("get_test") : j > i
                               THEN "index" ELSE FINISHED_ALL_TESTS)
    /\ \A i \in Positions("get_test") :
          rpcLog[i].ret.tag = "index" =>
              ListIndex(collected_tests, rpcLog[i].ret.index) # 0
    /\ \A k \in Positions("finished_test") : rpcLog[k].ret.tag = "ACK"
    /\ \A i \in 1..Len(rpcLog) :
          rpcLog[i].call \in {"connect", "validate_collection", "disconnect"}
              => rpcLog[i].ret.tag # TransportFailure
    /\ exc # "Interruption"

\* C9: in such a run there is one finished_test call per index received, in
\* the order received, each the next call start makes and carrying the
\* serialized result of the local test at that index; then the session is
\* marked complete, disconnect is called once and start returns.
C9_OneResultPerIndexInOrder ==
    C9_Scenario =>
        /\ Len(Sent) = Len(Received)
        /\ \A k \in 1..Len(Sent) :
              \E status \in {"success", "failure"} :
                  Sent[k].sent =
                      Serialize(Result(LocalTest(Received[k].ret.index), status))
        /\ \A i \in Positions("get_test") :
              rpcLog[i].ret.tag = "index" =>
                  /\ NextOfStart(i) # 0
                  /\ rpcLog[NextOfStart(i)].call = "finished_test"
        /\ Len(Sent) > 0 =>
              Sent[Len(Sent)].sent[3] = results[LocalTest(Received[Len(Sent)].ret.index)]
        /\ complete
        /\ Cardinality(Positions("disconnect")) = 1
        /\ pc = "returned"

C9_Witness ==
    /\ C9_Scenario
    /\ Len(Received) = 2
    /\ Received[1].ret.index = 0
    /\ Received[2].ret.index = 1
    /\ Sent[1].sent[3] = "success"
    /\ Sent[2].sent[3] = "failure"

\* C10: every WAITING_FOR_CLIENTS answer is followed by one sleep and then
\* the loop again: the sleeps performed are the WAITING_FOR_CLIENTS answers
\* received (less the one pending), the call after such an answer is a
\* get_test, and until that call no test is dispatched, the loop goes on and
\* the session is not marked complete; an index that follows is dispatched.
C10_WaitingBacksOffAndRetries ==
    LET waiting == Answered("get_test", {WAITING_FOR_CLIENTS}) IN
    /\ sleeps = Cardinality(waiting) - (IF pc = "sleep" THEN 1 ELSE 0)
    /\ \A i \in waiting : i < Len(rpcLog) => rpcLog[i + 1].call = "get_test"
    /\ Len(rpcLog) \in waiting =>
          /\ pc \in {"sleep", "loop"}
          /\ ~should_stop
          /\ ~complete
          /\ pc = "loop" => (ENABLED GetTest /\ ~ENABLED LoopExit)
    /\ pc = "sleep" => Len(rpcLog) \in waiting
    /\ \A i \in waiting :
          (i < Len(rpcLog) /\ rpcLog[i + 1].ret.tag = "index"
              /\ ListIndex(collected_tests, rpcLog[i + 1].ret.index) # 0
              /\ i + 1 = LastOfStart)
          => (pc \in {"dispatch", "run", "finished_test", "except"} \cup Teardown
                        \cup {"raised"}
              /\ test_index = rpcLog[i + 1].ret)

C10_Witness ==
    /\ sleeps = 1
    /\ pc = "run"
    /\ Cardinality(Positions("get_test")) = 2
    /\ Cardinality(Answered("get_test", {WAITING_FOR_CLIENTS})) = 1
    /\ current_parallel_test_index = test_index

\* C11: a transport failure of get_test or finished_test is the last call
\* start makes: the failure stays in flight, the session is not marked
\* complete, there is no disconnect and no further get_test, and start exits
\* by raising it, after the scopes were flushed and the heartbeat joined.
C11_TransportFailurePropagates ==
    \A i \in Answered("get_test", {TransportFailure})
                \cup Answered("finished_test", {TransportFailure}) :
        /\ i = Len(rpcLog)
        /\ exc = TransportFailure
        /\ pc \in Teardown \cup {"raised"}
        /\ ~complete
        /\ Positions("disconnect") = {}
        /\ pc = "raised" => (flushed /\ stop_event = "set" /\ HeartbeatEnded)

C11_Witness ==
    /\ Answered("finished_test", {TransportFailure}) # {}
    /\ Cardinality(Positions("get_test")) = 2
    /\ pc = "raised"
    /\ flushed

\* C12: a warning whose serialization fails is logged and dropped: no
\* report_warning call is made for it, no exception leaves warning_added, and
\* the test goes on executing with no exception in flight in start.
C12_UnpicklableWarningDropped ==
    hook.payload \notin {"None", "ok"} =>
        /\ hook.logged
        /\ ~hook.reported
        /\ hook.raised = "None"
        /\ pc = "run"
        /\ exc = "None"

\* C13: the answer of a get_test call that returned selects one branch of
\* the loop body: WAITING_FOR_CLIENTS sleeps and asks again,
\* PROTOCOL_ERROR, FINISHED_ALL_TESTS and SHOULD_TERMINATE each leave the
\* loop through their own branch, and an answer is dispatched as a test if
\* and only if it is none of the four sentinels.
C13_SentinelExhaustiveness ==
    LET last == rpcLog[LastOfStart] IN
    /\ (LastOfStart > 0 /\ last.call = "get_test" /\ last.ret.tag # TransportFailure) =>
          /\ test_index = last.ret
          /\ last.ret.tag = WAITING_FOR_CLIENTS <=>
                (branch = "waiting" /\ pc \in {"sleep", "loop"})
          /\ last.ret.tag = PROTOCOL_ERROR <=>
                (branch = "protocol_error" /\ pc \in {"else", "disconnect"})
          /\ last.ret.tag = FINISHED_ALL_TESTS <=>
                (branch = "finished_all_tests" /\ pc \in {"else", "disconnect"})
          /\ last.ret.tag = SHOULD_TERMINATE <=>
                (branch = "should_terminate" /\ pc \in {"else", "disconnect"})
          /\ last.ret.tag \notin Sentinels <=>
                (branch = "test" /\ pc \in {"dispatch", "run", "finished_test", "except"}
                                            \cup Teardown \cup {"raised"})
    /\ pc \in {"dispatch", "run", "finished_test"} =>
          (test_index.tag \notin Sentinels /\ branch = "test")
    /\ pc = "sleep" => test_index.tag = WAITING_FOR_CLIENTS

C13_Witness ==
    /\ Cardinality(Positions("get_test")) = 2
    /\ rpcLog[Len(rpcLog)].call = "get_test"
    /\ rpcLog[Len(rpcLog)].ret.tag = "index"
    /\ Answered("get_test", {WAITING_FOR_CLIENTS}) # {}
    /\ pc = "run"

\* C14: a keep_alive call that fails while the event is not set does not end
\* the heartbeat: the thread goes on to its next tick.
C14_FailedKeepAliveRetried ==
    [][(hb = "call" /\ hb' # "call" /\ stop_event' # "set")
            => hb' \in {"wait", "check"}]_vars

\* C15: every call of start and of the warning hook is made on self.client,
\* which start opened; the heartbeat calls on a handle the keep_alive thread
\* opened itself; the two are different objects, so a keep_alive call in
\* progress never shares its handle with a call of the run loop or the hook.
C15_SeparateHandles ==
    /\ \A i \in 1..Len(rpcLog) :
          rpcLog[i].on = client /\ handles[client] = "start"
    /\ hook.reported => (hook.on = client /\ handles[client] = "start")
    /\ hb \in {"check", "call", "wait", "exited", "failed"} =>
          /\ proxy # 0
          /\ handles[proxy] = "keep_alive"
          /\ proxy # client
    /\ hb = "call" =>
          /\ \A i \in 1..Len(rpcLog) : rpcLog[i].on # proxy
          /\ hook.on # proxy

C15_Witness ==
    /\ hb = "call"
    /\ pc = "run"
    /\ hook.reported
    /\ Cardinality(Positions("get_test")) = 2

\* C16: the event is created unset when the thread is started and is set by
\* one step only, the stop_event.set() of the finally clause of start, in which
\* the heartbeat thread does not move; it is never cleared, so it is unset
\* while the loop runs and set exactly from the set() on.
C16_EventUnsetInLoop ==
    /\ pc \in InLoop => stop_event = "unset"
    /\ pc \in {"else", "disconnect", "flush", "set_event"} => stop_event # "set"
    /\ stop_event # "None" =>
          (stop_event = "set" <=> pc \in {"join", "returned", "raised"})

C16_StopEventSetOnce ==
    /\ []C16_EventUnsetInLoop
    /\ [][stop_event' # stop_event =>
             \/ /\ stop_event = "None" /\ stop_event' = "unset"
                /\ pc = "start_thread"
             \/ /\ stop_event = "unset" /\ stop_event' = "set"
                /\ pc = "set_event" /\ pc' = "join"
                /\ hb' = hb]_vars

C16_Witness ==
    /\ pc = "returned"
    /\ stop_event = "set"
    /\ hb = "failed"
    /\ NumCalls("finished_test") = 2

\* C17: while a test runs, current_parallel_test_index is the answer of the
\* latest get_test call, an index; the field changes only in the step of the
\* run loop that dispatches the test, before run_tests starts.
C17_FieldIsLastAnswer ==
    pc = "run" =>
        LET gets == SelectSeq(rpcLog, LAMBDA e : e.call = "get_test")
        IN /\ Len(gets) > 0
           /\ current_parallel_test_index = gets[Len(gets)].ret
           /\ current_parallel_test_index.tag = "index"

C17_CurrentIndexIsDispatched ==
    /\ []C17_FieldIsLastAnswer
    /\ [][current_parallel_test_index' # current_parallel_test_index =>
             /\ pc = "dispatch" /\ pc' = "run"
             /\ hb' = hb]_vars

C17_Witness ==
    /\ pc = "run"
    /\ Len(Received) = 2
    /\ Received[1].ret # Received[2].ret
    /\ current_parallel_test_index = Received[2].ret

\* C18: on a run that leaves the loop normally (FINISHED_ALL_TESTS, no
\* PROTOCOL_ERROR, no exception), no keep_alive call begins once disconnect
\* has been called.
C18_NoKeepAliveAfterDisconnect ==
    (/\ complete
     /\ exc = "None"
     /\ Answered("get_test", {PROTOCOL_ERROR}) = {}
     /\ Answered("finished_test", {PROTOCOL_ERROR}) = {}
     /\ NumCalls("disconnect") > 0)
        => ~kaLate

\* C19: once stop_event is set, the heartbeat thread ends and start exits.
C19_TeardownCompletes ==
    (stop_event = "set") ~> (HeartbeatEnded /\ Exited)

C19_Witness ==
    /\ Exited
    /\ stop_event = "set"
    /\ hb = "exited"
    /\ kaLate

\* the classes of the suite in the order of their creation
Classes ==
    LET RECURSIVE Flat(_)
        Flat(n) == IF n = 0 THEN <<>> ELSE Flat(n - 1) \o files[n].classes
    IN Flat(Len(files))

\* C20: add_test fills classes to capacity: every class but the most recently
\* created holds NUM_TESTS_PER_CLASS tests and every file but the last holds
\* NUM_CLASSES_PER_FILE classes, and no class or file holds more.
C20_ClassesFilledToCapacity ==
    /\ \A i \in 1..Len(Classes) :
          /\ Len(Classes[i].tests) <= NUM_TESTS_PER_CLASS
          /\ i < Len(Classes) => Len(Classes[i].tests) = NUM_TESTS_PER_CLASS
    /\ \A n \in 1..Len(files) :
          /\ Len(files[n].classes) <= NUM_CLASSES_PER_FILE
          /\ n < Len(files) => Len(files[n].classes) = NUM_CLASSES_PER_FILE

====
